---- MODULE Spec2Model ----
(***************************************************************************)
(* thought_to_table: recipe URL -> scaled shopping list -> retailer match. *)
(*                                                                         *)
(* Two programs are modelled, as the repository ships them:                *)
(*   prog = "cli"        recipe_cli.py  (main, process_recipe, call_claude)*)
(*   prog = "assistant"  main.py        (__main__, RecipeAssistant)        *)
(*                                                                         *)
(* A text is a sequence of elements.  An element is either one of the      *)
(* characters the code inspects (backtick, newline, blank, JSON            *)
(* punctuation, double quote) or a word: a run of other characters, which  *)
(* no operation of the code splits.                                        *)
(***************************************************************************)
EXTENDS Integers, Sequences, FiniteSets, TLC

\* ------------------------------------------------------------------ bounds
\* Target serving counts range over 1..MaxServings.
MaxServings == 2
\* Lists written by the model (scaled_ingredients, shopping_list) hold up to
\* MaxItems entries.
MaxItems == 2

\* ------------------------------------------------------------------- texts
\* The backtick character (the lexer of TLA+ admits none inside a string, so
\* the element is spelled out).
BT == "<backtick>"
NL == "\n"
SP == " "
QT == "\""

Whitespace == {SP, NL}

\* The fence marker (three backticks) of the response cleaners.
Fence == <<BT, BT, BT>>

RECURSIVE LStrip(_)
\* str.lstrip(): leading whitespace removed.
LStrip(s) ==
    IF s /= <<>> /\ Head(s) \in Whitespace THEN LStrip(Tail(s)) ELSE s

RECURSIVE RStrip(_)
\* str.rstrip(): trailing whitespace removed.
RStrip(s) ==
    IF s /= <<>> /\ s[Len(s)] \in Whitespace
    THEN RStrip(SubSeq(s, 1, Len(s) - 1))
    ELSE s

\* str.strip()
Strip(s) == RStrip(LStrip(s))

\* text.startswith(fence)
StartsWithFence(s) == Len(s) >= 3 /\ SubSeq(s, 1, 3) = Fence

\* text.endswith(fence)
EndsWithFence(s) == Len(s) >= 3 /\ SubSeq(s, Len(s) - 2, Len(s)) = Fence

\* The positions at which the fence marker occurs in s.
FencePositions(s) == {i \in 1..(Len(s) - 2) : SubSeq(s, i, i + 2) = Fence}

\* fence in text
HasFence(s) == FencePositions(s) /= {}

\* text.rsplit(fence, 1)[0]: the text before the last occurrence of the marker.
BeforeLastFence(s) ==
    LET last == CHOOSE i \in FencePositions(s) : \A j \in FencePositions(s) : j <= i
    IN  SubSeq(s, 1, last - 1)

\* The positions of newlines in s.
NewlinePositions(s) == {i \in 1..Len(s) : s[i] = NL}

HasNewline(s) == NewlinePositions(s) /= {}

\* Everything after the first newline of s (s has one).
AfterFirstLine(s) ==
    LET first == CHOOSE i \in NewlinePositions(s) : \A j \in NewlinePositions(s) : i <= j
    IN  SubSeq(s, first + 1, Len(s))

\* -------------------------------------------------------------------- JSON
\* JSON values are tagged: [t |-> "num"|"str"|"arr"|"obj"|"null", v |-> ...].
Num(n) == [t |-> "num", v |-> n]
Str(s) == [t |-> "str", v |-> s]
Arr(a) == [t |-> "arr", v |-> a]
Obj(f) == [t |-> "obj", v |-> f]
JNull == [t |-> "null", v |-> 0]
EmptyMap == [k \in {} |-> JNull]

\* The numerals the texts of this model use, with their values.
Numerals == {"-1", "0", "1", "2", "3", "4", "5", "6", "7", "8", "9"}

NumeralValue(w) ==
    CASE w = "-1" -> 0 - 1
      [] w = "0" -> 0
      [] w = "1" -> 1
      [] w = "2" -> 2
      [] w = "3" -> 3
      [] w = "4" -> 4
      [] w = "5" -> 5
      [] w = "6" -> 6
      [] w = "7" -> 7
      [] w = "8" -> 8
      [] w = "9" -> 9

\* The numeral of an integer in -1..9 (what json.dumps and an f-string write).
NumeralOf(n) == CHOOSE w \in Numerals : NumeralValue(w) = n

ParseFail == [ok |-> FALSE, val |-> JNull, rest |-> <<>>]
ParseOk(v, r) == [ok |-> TRUE, val |-> v, rest |-> r]

\* The positions of double quotes in s.
QuotePositions(s) == {i \in 1..Len(s) : s[i] = QT}

\* A string body, s being the text after the opening quote: it runs to the
\* next quote, and holds no raw newline (a control character, which the JSON
\* decoder rejects inside a string).
ParseStringBody(s) ==
    IF QuotePositions(s) = {} THEN ParseFail
    ELSE LET close == CHOOSE i \in QuotePositions(s) : \A j \in QuotePositions(s) : i <= j
             body == SubSeq(s, 1, close - 1)
         IN  IF \E i \in 1..Len(body) : body[i] = NL
             THEN ParseFail
             ELSE ParseOk(Str(body), SubSeq(s, close + 1, Len(s)))

RECURSIVE ParseValue(_), ParseMembers(_, _), ParseElements(_, _)

\* The object m with key k set to value v (a repeated key keeps its last value).
Put(m, k, v) == [x \in (DOMAIN m) \cup {k} |-> IF x = k THEN v ELSE m[x]]

\* After a member's value: r is the text that follows it, m the members so
\* far; "}" ends the object and "," continues it.
MembersEnd(r, m) ==
    IF r = <<>> THEN ParseFail
    ELSE IF Head(r) = "}" THEN ParseOk(Obj(m), Tail(r))
    ELSE IF Head(r) = "," THEN ParseMembers(Tail(r), m)
    ELSE ParseFail

\* A member's value v has been parsed for key k.
MembersValue(k, v, acc) ==
    IF ~v.ok THEN ParseFail ELSE MembersEnd(LStrip(v.rest), Put(acc, k, v.val))

\* A member's key k has been parsed; c is the text that follows it.
MembersColon(k, c, acc) ==
    IF c = <<>> \/ Head(c) /= ":" THEN ParseFail
    ELSE MembersValue(k, ParseValue(Tail(c)), acc)

\* The parse k of a member's key.
MembersKey(k, acc) ==
    IF ~k.ok THEN ParseFail ELSE MembersColon(k.val.v, LStrip(k.rest), acc)

\* A member starts at the head of t.
MembersAt(t, acc) ==
    IF t = <<>> \/ Head(t) /= QT THEN ParseFail
    ELSE MembersKey(ParseStringBody(Tail(t)), acc)

\* The members of an object after "{" or ",": "key" : value, then "," or "}".
ParseMembers(s, acc) == MembersAt(LStrip(s), acc)

\* After an element: r is the text that follows it, acc the elements so far.
ElementsEnd(r, acc) ==
    IF r = <<>> THEN ParseFail
    ELSE IF Head(r) = "]" THEN ParseOk(Arr(acc), Tail(r))
    ELSE IF Head(r) = "," THEN ParseElements(Tail(r), acc)
    ELSE ParseFail

\* An element v has been parsed.
ElementsValue(v, acc) ==
    IF ~v.ok THEN ParseFail ELSE ElementsEnd(LStrip(v.rest), Append(acc, v.val))

\* The elements of an array after "[" or ",": value, then "," or "]".
ParseElements(s, acc) == ElementsValue(ParseValue(s), acc)

\* After "{": u is the text that follows it.
ObjectAt(u) ==
    IF u /= <<>> /\ Head(u) = "}" THEN ParseOk(Obj(EmptyMap), Tail(u))
    ELSE ParseMembers(u, EmptyMap)

\* After "[": u is the text that follows it.
ArrayAt(u) ==
    IF u /= <<>> /\ Head(u) = "]" THEN ParseOk(Arr(<<>>), Tail(u))
    ELSE ParseElements(u, <<>>)

\* One JSON value at the head of t.
ValueAt(t) ==
    IF t = <<>> THEN ParseFail
    ELSE CASE Head(t) = "{" -> ObjectAt(LStrip(Tail(t)))
           [] Head(t) = "[" -> ArrayAt(LStrip(Tail(t)))
           [] Head(t) = QT -> ParseStringBody(Tail(t))
           [] Head(t) \in Numerals -> ParseOk(Num(NumeralValue(Head(t))), Tail(t))
           [] OTHER -> ParseFail

\* One JSON value at the head of s (leading whitespace skipped).
ParseValue(s) == ValueAt(LStrip(s))

\* The decoder's verdict on the parse r of the whole text: a value followed
\* by nothing but whitespace.
Loaded(r) ==
    IF r.ok /\ LStrip(r.rest) = <<>>
    THEN [ok |-> TRUE, val |-> r.val]
    ELSE [ok |-> FALSE, val |-> JNull]

\* json.loads(text): [ok |-> TRUE, val |-> value], or ok = FALSE for
\* json.JSONDecodeError (no value, or extra data after it).
json_loads(s) == Loaded(ParseValue(s))

\* ------------------------------------------------- the response cleaners
\* The outcome of one model call: exc = "none" and the decoded value, or the
\* exception the call raised.
CallOk(v) == [exc |-> "none", val |-> v]
CallRaised(e) == [exc |-> e, val |-> JNull]

Decoded(r) == IF r.ok THEN CallOk(r.val) ELSE CallRaised("JSONDecodeError")

\* json.loads(text.strip()) as the last line of both cleaners.
LoadStripped(s) == Decoded(json_loads(Strip(s)))

\* The text after its first line, as newline.join(text.split(newline)[1:])
\* gives it: empty when the text is one line.
DropFirstLine(t) == IF HasNewline(t) THEN AfterFirstLine(t) ELSE <<>>

\* if fence in text: text = text.rsplit(fence, 1)[0]
CutAtLastFence(t) == IF HasFence(t) THEN BeforeLastFence(t) ELSE t

\* recipe_cli.call_claude on the stripped reply t: if it starts with a fence,
\* the first line is dropped and the rest cut at the last fence left, if any.
CliUnfence(t) ==
    IF StartsWithFence(t) THEN CutAtLastFence(DropFirstLine(t)) ELSE t

\* recipe_cli.call_claude, from the reply text on.
CleanCli(text) == LoadStripped(CliUnfence(Strip(text)))

\* RecipeAssistant._call_claude on the text t after the opening fence line:
\* the trailing fence is removed, or else the text cut at the last fence left.
AssistantUnfence(t) ==
    IF EndsWithFence(t) THEN SubSeq(t, 1, Len(t) - 3) ELSE CutAtLastFence(t)

\* RecipeAssistant._call_claude, from the reply text on: no strip first; if
\* the text starts with a fence, text.split(newline, 1)[1] (IndexError when
\* the text has no newline) and the fences after it removed.
CleanAssistant(text) ==
    IF ~StartsWithFence(text) THEN LoadStripped(text)
    ELSE IF ~HasNewline(text) THEN CallRaised("IndexError")
    ELSE LoadStripped(AssistantUnfence(AfterFirstLine(text)))

\* The cleaner of program p.
Clean(p, text) == IF p = "cli" THEN CleanCli(text) ELSE CleanAssistant(text)

\* ------------------------------------------------------ writing JSON text
RECURSIVE Join(_, _)
\* sep.join(parts), for a sequence of texts.
Join(parts, sep) ==
    IF parts = <<>> THEN <<>>
    ELSE IF Len(parts) = 1 THEN parts[1]
    ELSE parts[1] \o sep \o Join(Tail(parts), sep)

\* "body" as a JSON string, body a text without quote or newline.
JStr(body) == <<QT>> \o body \o <<QT>>
JNum(n) == <<NumeralOf(n)>>
\* "key": value
JMember(key, value) == JStr(<<key>>) \o <<":", SP>> \o value
JObject(members) == <<"{">> \o Join(members, <<",", SP>>) \o <<"}">>
JArray(elems) == <<"[">> \o Join(elems, <<",", SP>>) \o <<"]">>

\* The key k of an object value (a JSON string of one word).
Key(k) == <<k>>

\* dict.get(key, default) on a decoded object.
Get(obj, k, default) == IF Key(k) \in DOMAIN obj.v THEN obj.v[Key(k)] ELSE default

HasKey(obj, k) == obj.t = "obj" /\ Key(k) \in DOMAIN obj.v

\* ------------------------------------------------------------ fence variants
\* The ways a model wraps a payload: bare, after an opening fence line, between
\* an opening and a trailing fence, and the same two with a language tag on
\* the opening fence line.
Variants == {"bare", "open", "both", "tagged_open", "tagged_both"}

Wrap(v, payload) ==
    CASE v = "bare" -> payload
      [] v = "open" -> Fence \o <<NL>> \o payload
      [] v = "both" -> Fence \o <<NL>> \o payload \o <<NL>> \o Fence
      [] v = "tagged_open" -> Fence \o <<"json", NL>> \o payload
      [] v = "tagged_both" -> Fence \o <<"json", NL>> \o payload \o <<NL>> \o Fence
      [] v = "inline" -> Fence \o payload

\* A further wrapping, outside the four kinds: the payload on the fence's own
\* line.
AllVariants == Variants \cup {"inline"}

\* ---------------------------------------------------------------- strings
UpperCase == <<"A", "B", "C", "D", "E", "F", "G", "H", "I", "J", "K", "L", "M", "N", "O", "P", "Q", "R", "S", "T", "U", "V", "W", "X", "Y", "Z">>
LowerCase == <<"a", "b", "c", "d", "e", "f", "g", "h", "i", "j", "k", "l", "m", "n", "o", "p", "q", "r", "s", "t", "u", "v", "w", "x", "y", "z">>

\* str.lower() of one character.
LowerChar(c) ==
    IF \E i \in 1..Len(UpperCase) : UpperCase[i] = c
    THEN LowerCase[CHOOSE i \in 1..Len(UpperCase) : UpperCase[i] = c]
    ELSE c

\* str.lower()
Lower(s) == IF s = <<>> THEN <<>> ELSE [i \in 1..Len(s) |-> LowerChar(s[i])]

\* sub in s, for strings as character sequences.
Contains(s, sub) ==
    \E i \in 0..(Len(s) - Len(sub)) : SubSeq(s, i + 1, i + Len(sub)) = sub

\* ------------------------------------------------------------- the validator
\* invalid_keywords of is_valid_product: the denylist of each category.
InvalidCategories == {<<"p", "r", "o", "d", "u", "c", "e">>, <<"d", "a", "i", "r", "y">>, <<"m", "e", "a", "t">>}

invalid_keywords(category) ==
    CASE category = <<"p", "r", "o", "d", "u", "c", "e">> ->
            {<<"s", "e", "e", "d", "s">>,
             <<"p", "l", "a", "n", "t">>,
             <<"g", "a", "r", "d", "e", "n">>,
             <<"g", "r", "o", "w", "i", "n", "g">>}
      [] category = <<"d", "a", "i", "r", "y">> ->
            {<<"c", "h", "i", "p", "s">>,
             <<"s", "n", "a", "c", "k", "s">>,
             <<"a", "r", "t", "i", "f", "i", "c", "i", "a", "l">>}
      [] category = <<"m", "e", "a", "t">> ->
            {<<"p", "e", "t">>,
             <<"d", "o", "g">>,
             <<"c", "a", "t">>,
             <<"t", "o", "y">>}
      [] OTHER -> {}

\* ingredient.get(key, '') of a string field.
Field(ingredient, k) == Get(ingredient, k, Str(<<>>)).v

\* A validator that forgets to lower-case the candidate name.
MutIsValidProduct(product_name, ingredient) ==
    LET category == Lower(Field(ingredient, "category"))
        name == Lower(Field(ingredient, "name"))
    IN  IF category \in InvalidCategories
           /\ \E kw \in invalid_keywords(category) : Contains(product_name, kw)
        THEN FALSE
        ELSE IF name /= <<>> /\ ~Contains(product_name, name)
        THEN FALSE
        ELSE TRUE

\* RecipeAssistant.is_valid_product
is_valid_product(product_name, ingredient) ==
    LET category == Lower(Field(ingredient, "category"))
        name == Lower(Field(ingredient, "name"))
    IN  IF category \in InvalidCategories
           /\ \E kw \in invalid_keywords(category) : Contains(Lower(product_name), kw)
        THEN FALSE
        ELSE IF name /= <<>> /\ ~Contains(Lower(product_name), name)
        THEN FALSE
        ELSE TRUE

\* ------------------------------------------------------ ingredients, products
\* An ingredient object as the model writes it; an empty field is left out.
IngredientText(name, amount, unit, category) ==
    JObject(
        (IF name = <<>> THEN <<>> ELSE <<JMember("name", JStr(name))>>)
        \o <<JMember("amount", JNum(amount))>>
        \o (IF unit = <<>> THEN <<>> ELSE <<JMember("unit", JStr(unit))>>)
        \o (IF category = <<>> THEN <<>> ELSE <<JMember("category", JStr(category))>>))

\* The ingredients a reply may list, in the order a list of n takes them.
Catalog ==
    << IngredientText(<<"g", "a", "r", "l", "i", "c">>, 3, <<"h", "e", "a", "d">>, <<"p", "r", "o", "d", "u", "c", "e">>),
       IngredientText(<<"C", "h", "i", "c", "k", "e", "n", " ", "B", "r", "e", "a", "s", "t">>, 2, <<"l", "b">>, <<"M", "e", "a", "t">>),
       IngredientText(<<"m", "i", "l", "k">>, 1, <<"g", "a", "l", "l", "o", "n">>, <<"d", "a", "i", "r", "y">>),
       IngredientText(<<>>, 1, <<"b", "u", "n", "c", "h">>, <<"p", "r", "o", "d", "u", "c", "e">>),
       IngredientText(<<"g", "a", "r", "l", "i", "c">>, 2, <<>>, <<"p", "a", "n", "t", "r", "y">>),
       IngredientText(<<"r", "i", "c", "e">>, 1, <<>>, <<>>) >>

\* The i-th ingredient text of a list (the catalog repeats).
ItemText(i) == Catalog[((i - 1) % Len(Catalog)) + 1]

\* The decoded ingredients.
Ingredients == {json_loads(Catalog[i]).val : i \in 1..Len(Catalog)}

\* Product titles a results page may show.
GarlicCloves == <<"F", "r", "e", "s", "h", " ", "G", "a", "r", "l", "i", "c", " ", "C", "l", "o", "v", "e", "s", " ", "3", "c", "t">>
GarlicSeeds == <<"B", "u", "r", "p", "e", "e", " ", "G", "a", "r", "l", "i", "c", " ", "S", "E", "E", "D", "S">>
ChickenBreast == <<"B", "o", "n", "e", "l", "e", "s", "s", " ", "C", "h", "i", "c", "k", "e", "n", " ", "B", "r", "e", "a", "s", "t">>
ChickenDogTreats == <<"C", "h", "i", "c", "k", "e", "n", " ", "B", "r", "e", "a", "s", "t", " ", "D", "o", "g", " ", "T", "r", "e", "a", "t", "s">>
WholeMilk == <<"W", "h", "o", "l", "e", " ", "M", "i", "l", "k", " ", "G", "a", "l", "l", "o", "n">>
YellowOnion == <<"Y", "e", "l", "l", "o", "w", " ", "O", "n", "i", "o", "n">>

Candidates ==
    {GarlicCloves, GarlicSeeds, ChickenBreast, ChickenDogTreats, WholeMilk,
     YellowOnion, <<>>}

\* ------------------------------------------------------------ model replies
\* What the model may write for original_servings, or leave out.
OriginalServings == {0, 2}

\* A parse reply: recipe_name, and original_servings unless left out (os is
\* <<n>>, or <<>> when the model leaves it out).
RecipeText(os) ==
    JObject(
        <<JMember("recipe_name", JStr(<<"S", "o", "u", "p">>))>>
        \o (IF os = <<>> THEN <<>>
            ELSE <<JMember("original_servings", JNum(os[1]))>>))

\* A well-formed payload with the fence marker inside a string.
NoteText ==
    JObject(<<JMember("recipe_name", JStr(<<"S", "o", "u", "p">>)),
              JMember("notes", JStr(<<"serve", SP, "with", SP>> \o Fence))>>)

\* A well-formed payload that is no object.
ListText == JArray(<<>>)

\* A reply that is no JSON.
NotJson == <<"not", SP, "json", SP, "at", SP, "all">>

\* The ways a scale reply treats scaled_servings: left out, echoed, or wrong.
Echoes == {"omitted", "echo", "wrong"}

\* A scale reply for target n: scaled_servings as the echo says, ni scaled
\* ingredients and ns shopping-list items.
ScaledText(n, echo, ni, ns) ==
    JObject(
        (IF echo = "omitted" THEN <<>>
         ELSE <<JMember("scaled_servings", JNum(IF echo = "echo" THEN n ELSE n + 1))>>)
        \o <<JMember("scaled_ingredients", JArray([i \in 1..ni |-> ItemText(i)])),
             JMember("shopping_list", JArray([i \in 1..ns |-> ItemText(i)]))>>)

ParsePayloads ==
    {RecipeText(<<n>>) : n \in OriginalServings} \cup {RecipeText(<<>>), ListText}

\* The scale replies: every echo on lists of one item, and the true echo on
\* lists of every length.
ScalePayloads(n) ==
    {ScaledText(n, e, 1, 1) : e \in Echoes}
    \cup {ScaledText(n, "echo", ni, ns) : ni \in 0..MaxItems, ns \in 0..MaxItems}
    \cup {ListText}

\* The outcomes of client.messages.create: a reply text, or an API exception.
ApiError == [exc |-> "APIError", text |-> <<>>]
Reply(text) == [exc |-> "none", text |-> text]

\* The wrappings the replies of a run come in (the cleaners are applied to
\* every variant under SpecFn).
RunVariants == {"bare", "tagged_both"}

ParseReplies ==
    {Reply(Wrap(v, p)) : v \in RunVariants, p \in ParsePayloads}
    \cup {Reply(NotJson), ApiError}

ScaleReplies(n) ==
    {Reply(Wrap(v, p)) : v \in RunVariants, p \in ScalePayloads(n)}
    \cup {Reply(NotJson), ApiError}

\* call_claude / _call_claude of program p on the outcome r of the API call.
call_claude(p, r) == IF r.exc /= "none" THEN CallRaised(r.exc) ELSE Clean(p, r.text)

\* -------------------------------------------------------------------- state
VARIABLES
    prog,              \* "cli" (recipe_cli.py) or "assistant" (main.py)
    mode,              \* "run": a program run; "direct": calls of the matcher;
                       \* "pure": applications of the cleaner and the validator
    pc,                \* the control location
    argv,              \* sys.argv of the cli
    env_key,           \* whether ANTHROPIC_API_KEY is set
    url,               \* the recipe URL
    servings,          \* the target serving count (servings / servings_needed)
    search_walmart,    \* the search_walmart argument of process_recipe_url
    fetch,             \* the outcome of the HTTP GET, "none" before it
    parsed,            \* the parser's return value
    scaled,            \* the scaler's return value
    result,            \* the orchestrator's return value
    raised,            \* the exception that left the orchestrator or matcher
    calls,             \* the stages invoked, in order
    call_failed,       \* the stages whose model call raised
    driver,            \* self.driver: "None", "open" or "quit"
    sessions_created,  \* browser sessions created so far
    sessions_quit,     \* browser sessions released so far
    exit_code,         \* the process exit status, -1 while running
    ingredient,        \* the matcher's argument
    page,              \* the results page the browser shows
    product_name,      \* the matcher's local product_name
    product_url,       \* the matcher's local product_url
    price,             \* the matcher's local price
    consulted,         \* the name selectors the matcher consulted
    match_out,         \* the matcher's return value
    fn_in,             \* the input of a pure function
    fn_out             \* its output

vars ==
    <<prog, mode, pc, argv, env_key, url, servings, search_walmart, fetch, parsed,
      scaled, result, raised, calls, call_failed, driver, sessions_created,
      sessions_quit, exit_code, ingredient, product_name, product_url, price,
      consulted, match_out, page, fn_in, fn_out>>

browser_vars == <<driver, sessions_created, sessions_quit>>
matcher_vars == <<ingredient, page, product_name, product_url, price, consulted, match_out>>
fn_vars == <<fn_in, fn_out>>
input_vars == <<prog, mode, argv, env_key, search_walmart>>

\* Python's None, for a variable not yet assigned.
None == [t |-> "none", v |-> 0]
NoResult == [none |-> TRUE]
NoMatch == [none |-> TRUE]
NoPage == [none |-> TRUE]

\* The recipe URLs of the model.
RecipeUrl == "https://www.bonappetit.com/recipe/loaded-scalloped-potatoes"

\* servings: int = 7, the default target of process_recipe and of main.
DefaultServings == 7

\* str.isdigit() on the argument words of the model.
IsDigit(w) == w \in Numerals \ {"-1"}

\* The numeral arguments for the targets 1..MaxServings.
TargetArgs == {NumeralOf(n) : n \in 1..MaxServings}

\* The argument vectors of the cli, sys.argv[0] included.
Argvs ==
    {<<"recipe_cli.py">>,
     <<"recipe_cli.py", "-h">>,
     <<"recipe_cli.py", "--help">>,
     <<"recipe_cli.py", RecipeUrl>>,
     <<"recipe_cli.py", RecipeUrl, "0">>,
     <<"recipe_cli.py", RecipeUrl, "abc">>}
    \cup {<<"recipe_cli.py", RecipeUrl, a>> : a \in TargetArgs}

\* The outcomes of requests.get and of the HTML reduction: a 2xx page, a
\* non-2xx page, a network error (requests.RequestException), any other error.
FetchOutcomes == {"ok", "http_error", "network_error", "other_error"}

Range(s) == {s[i] : i \in 1..Len(s)}

\* The state every specification starts from, but for the inputs.
Blank ==
    /\ pc = "start"
    /\ url = ""
    /\ fetch = "none"
    /\ parsed = None
    /\ scaled = None
    /\ result = NoResult
    /\ raised = "none"
    /\ calls = <<>>
    /\ call_failed = {}
    /\ driver = "None"
    /\ sessions_created = 0
    /\ sessions_quit = 0
    /\ exit_code = 0 - 1
    /\ ingredient = None
    /\ page = NoPage
    /\ product_name = None
    /\ product_url = None
    /\ price = None
    /\ consulted = <<>>
    /\ match_out = NoMatch
    /\ fn_out = None

Init ==
    /\ Blank
    /\ mode = "run"
    /\ fn_in = None
    /\ \/ /\ prog = "cli"
          /\ argv \in Argvs
          /\ env_key \in BOOLEAN
          /\ servings = DefaultServings
          /\ search_walmart = FALSE
       \/ /\ prog = "assistant"
          /\ argv = <<"main.py">>
          /\ env_key = TRUE
          /\ servings \in 1..MaxServings
          /\ search_walmart \in BOOLEAN

\* ------------------------------------------------------------- recipe_cli.py
\* The failure results of process_recipe.
Failure(message) == [success |-> FALSE, error |-> message]

\* The success result of process_recipe.
Success(u, n, p, s) ==
    [success |-> TRUE,
     url |-> u,
     recipe_name |-> Get(s, "recipe_name", Get(p, "recipe_name", Str(<<"R", "e", "c", "i", "p", "e">>))),
     original_servings |-> Get(p, "original_servings", Num(4)),
     scaled_servings |-> Num(n),
     shopping_list |-> Get(s, "shopping_list", Arr(<<>>)),
     estimated_cost |-> Get(s, "estimated_total_cost", Num(0)),
     storage_tips |-> Get(s, "storage_tips", Obj(EmptyMap))]

\* The except clauses of process_recipe, for an exception e raised in its try.
Handled(e) ==
    IF e \in {"HTTPError", "ConnectionError"}
    THEN Failure(<<"Failed to fetch recipe: ", e>>)
    ELSE IF e = "JSONDecodeError"
    THEN Failure(<<"Failed to parse Claude response: ", e>>)
    ELSE Failure(<<e>>)

\* main, up to the call of process_recipe: usage and exit on help or on no
\* argument, else the URL and the target.
CliMain ==
    /\ prog = "cli" /\ mode = "run" /\ pc = "start"
    /\ IF Len(argv) < 2 \/ argv[2] \in {"-h", "--help"}
       THEN /\ exit_code' = (IF "--help" \in Range(argv) THEN 0 ELSE 1)
            /\ pc' = "exited"
            /\ UNCHANGED <<url, servings>>
       ELSE /\ url' = argv[2]
            /\ servings' = (IF Len(argv) > 2 /\ IsDigit(argv[3])
                            THEN NumeralValue(argv[3])
                            ELSE DefaultServings)
            /\ pc' = "c_begin"
            /\ UNCHANGED exit_code
    /\ UNCHANGED <<input_vars, fetch, parsed, scaled, result, raised, calls,
                   call_failed, browser_vars, matcher_vars, fn_vars>>

\* process_recipe, before its try: the key check, then the client, whose
\* construction may raise.
CliBegin ==
    /\ prog = "cli" /\ mode = "run" /\ pc = "c_begin"
    /\ IF ~env_key
       THEN /\ result' = Failure(<<"ANTHROPIC_API_KEY not set">>)
            /\ pc' = "c_returned"
            /\ UNCHANGED raised
       ELSE \/ /\ pc' = "c_extract"
               /\ UNCHANGED <<result, raised>>
            \/ /\ raised' = "ClientError"
               /\ pc' = "c_raised"
               /\ UNCHANGED result
    /\ UNCHANGED <<input_vars, url, servings, fetch, parsed, scaled, calls,
                   call_failed, browser_vars, matcher_vars, fn_vars, exit_code>>

\* extract_recipe_text(url) in the try of process_recipe: raise_for_status
\* turns a non-2xx page into an exception.
CliExtract ==
    /\ prog = "cli" /\ mode = "run" /\ pc = "c_extract"
    /\ calls' = Append(calls, "extract")
    /\ \E o \in FetchOutcomes :
         /\ fetch' = o
         /\ IF o = "ok"
            THEN pc' = "c_parse" /\ UNCHANGED result
            ELSE /\ result' = Handled(CASE o = "http_error" -> "HTTPError"
                                        [] o = "network_error" -> "ConnectionError"
                                        [] OTHER -> "Exception")
                 /\ pc' = "c_returned"
    /\ UNCHANGED <<input_vars, url, servings, parsed, scaled, raised, call_failed,
                   browser_vars, matcher_vars, fn_vars, exit_code>>

\* A parse step that issues the model call again when it failed.
MutCliParse ==
    /\ prog = "cli" /\ mode = "run" /\ pc = "c_parse"
    /\ calls' = Append(calls, "parse")
    /\ \E r \in ParseReplies :
         \E out \in {call_claude("cli", r)} :
             IF out.exc = "none"
             THEN /\ parsed' = out.val
                  /\ pc' = "c_scale"
                  /\ UNCHANGED call_failed
             ELSE /\ call_failed' = call_failed \cup {"parse"}
                  /\ pc' = "c_parse"
                  /\ UNCHANGED parsed
    /\ UNCHANGED <<input_vars, url, servings, fetch, scaled, result, raised,
                   browser_vars, matcher_vars, fn_vars, exit_code>>

\* parsed = call_claude(client, parse_prompt)
CliParse ==
    /\ prog = "cli" /\ mode = "run" /\ pc = "c_parse"
    /\ calls' = Append(calls, "parse")
    /\ \E r \in ParseReplies :
         \E out \in {call_claude("cli", r)} :
             IF out.exc = "none"
             THEN /\ parsed' = out.val
                  /\ pc' = "c_scale"
                  /\ UNCHANGED <<result, call_failed>>
             ELSE /\ result' = Handled(out.exc)
                  /\ call_failed' = call_failed \cup {"parse"}
                  /\ pc' = "c_returned"
                  /\ UNCHANGED parsed
    /\ UNCHANGED <<input_vars, url, servings, fetch, scaled, raised,
                   browser_vars, matcher_vars, fn_vars, exit_code>>

\* The scale prompt (parsed.get raises on a value that is no dict), then
\* scaled = call_claude(client, scale_prompt), then the result (scaled.get
\* raises likewise).
CliScale ==
    /\ prog = "cli" /\ mode = "run" /\ pc = "c_scale"
    /\ IF parsed.t /= "obj"
       THEN /\ result' = Handled("AttributeError")
            /\ UNCHANGED <<scaled, calls, call_failed>>
       ELSE /\ calls' = Append(calls, "scale")
            /\ \E r \in ScaleReplies(servings) :
                 \E out \in {call_claude("cli", r)} :
                     IF out.exc /= "none"
                     THEN /\ result' = Handled(out.exc)
                          /\ call_failed' = call_failed \cup {"scale"}
                          /\ UNCHANGED scaled
                     ELSE /\ scaled' = out.val
                          /\ UNCHANGED call_failed
                          /\ result' = (IF out.val.t /= "obj"
                                        THEN Handled("AttributeError")
                                        ELSE Success(url, servings, parsed, out.val))
    /\ pc' = "c_returned"
    /\ UNCHANGED <<input_vars, url, servings, fetch, parsed, raised,
                   browser_vars, matcher_vars, fn_vars, exit_code>>

\* main after process_recipe returned: the result is printed, and the
\* process ends with status 0.
CliPrint ==
    /\ prog = "cli" /\ mode = "run" /\ pc = "c_returned"
    /\ exit_code' = 0
    /\ pc' = "exited"
    /\ UNCHANGED <<input_vars, url, servings, fetch, parsed, scaled, result, raised,
                   calls, call_failed, browser_vars, matcher_vars, fn_vars>>

\* An exception that left process_recipe is caught nowhere: the interpreter
\* prints the traceback and ends with status 1.
CliCrash ==
    /\ prog = "cli" /\ mode = "run" /\ pc = "c_raised"
    /\ exit_code' = 1
    /\ pc' = "exited"
    /\ UNCHANGED <<input_vars, url, servings, fetch, parsed, scaled, result, raised,
                   calls, call_failed, browser_vars, matcher_vars, fn_vars>>

\* ------------------------------------------------------ main.py: the browser
\* The outcomes of acquiring a browser: uc.Chrome() returns and the window is
\* maximized, uc.Chrome() raises, or maximize_window() raises.
BrowserOutcomes == {"ok", "chrome_raises", "maximize_raises"}

\* RecipeAssistant._ensure_browser with self.driver = d and outcome o: the
\* new self.driver, the sessions created, the exception raised.
ensure_browser(d, o) ==
    IF d /= "None" THEN [driver |-> d, created |-> 0, exc |-> "none"]
    ELSE CASE o = "ok" -> [driver |-> "open", created |-> 1, exc |-> "none"]
           [] o = "chrome_raises" ->
                 [driver |-> "None", created |-> 0, exc |-> "WebDriverException"]
           [] o = "maximize_raises" ->
                 [driver |-> "open", created |-> 1, exc |-> "WebDriverException"]

\* A cleanup that forgets the session.
MutCleanupDriver(d) == d

\* RecipeAssistant.cleanup: if self.driver: self.driver.quit()
cleanup_driver(d) == IF d = "open" THEN "quit" ELSE d

\* ------------------------------------------------------ main.py: the matcher
NameNotFound == <<"N", "a", "m", "e", " ", "n", "o", "t", " ", "f", "o", "u", "n", "d">>
SearchFailed == <<"S", "e", "a", "r", "c", "h", " ", "f", "a", "i", "l", "e", "d">>
UrlNotFound == <<"U", "R", "L", " ", "n", "o", "t", " ", "f", "o", "u", "n", "d">>
PriceNotFound == <<"P", "r", "i", "c", "e", " ", "n", "o", "t", " ", "f", "o", "u", "n", "d">>

\* find_element raised: the selector matches nothing.
Miss == <<"NoSuchElementException">>

\* The texts the name selectors may find on a results page.
PageTitles == {GarlicCloves, GarlicSeeds, <<>>}

\* The texts the price selectors may find.
PriceText == <<"$", "3", ".", "9", "7">>

\* What the three price selectors find, as rows.
PriceRows ==
    {<<PriceText, Miss, Miss>>, <<<<>>, Miss, PriceText>>, <<Miss, <<>>, Miss>>,
     <<Miss, Miss, Miss>>}

\* How the product link is found: by the selector, by the scan of the
\* anchors, or not at all.
Links == {"selector", "anchor", "none"}

\* The href of a product link.
ProductHref == <<"https://www.walmart.com/ip/123">>

\* name_selectors: three selectors.
NameSelectors == 3

\* A results page: what each name selector finds, how the link is found,
\* what each price selector finds.
Pages ==
    {[names |-> n, link |-> l, prices |-> p] :
        n \in [1..NameSelectors -> PageTitles \cup {Miss}], l \in Links, p \in PriceRows}

\* The pages the searches of a run meet (the matcher is applied to every
\* page under SpecMatch).
RunPages ==
    {[names |-> <<GarlicCloves, Miss, Miss>>, link |-> "selector",
      prices |-> <<PriceText, Miss, Miss>>],
     [names |-> <<Miss, GarlicSeeds, <<>>>>, link |-> "anchor",
      prices |-> <<<<>>, Miss, PriceText>>],
     [names |-> <<Miss, Miss, Miss>>, link |-> "none",
      prices |-> <<Miss, Miss, Miss>>]}

PagesFor(m) == IF m = "run" THEN RunPages ELSE Pages

\* f"{ingredient.get('amount', '')} {ingredient.get('unit', '')}"
quantity_needed(ing) ==
    (IF HasKey(ing, "amount") THEN <<NumeralOf(Get(ing, "amount", Num(0)).v)>> ELSE <<>>)
    \o <<SP>> \o Field(ing, "unit")

\* value or sentinel, for a local that is None or a string.
OrElse(value, sentinel) ==
    IF value = None \/ value.v = <<>> THEN sentinel ELSE value.v

\* The return value of search_walmart_product on its normal path.
ProductMatch(ing, name, href, cost) ==
    [ingredient |-> ing,
     product |-> [name |-> OrElse(name, NameNotFound),
                  url |-> OrElse(href, UrlNotFound),
                  price |-> OrElse(cost, PriceNotFound),
                  quantity_needed |-> quantity_needed(ing)]]

\* The return value of its except clause.
FailedMatch(ing) ==
    [ingredient |-> ing,
     product |-> [name |-> SearchFailed,
                  url |-> UrlNotFound,
                  price |-> PriceNotFound,
                  quantity_needed |-> quantity_needed(ing)]]

\* A loop over name_selectors without the break: every selector from i on is
\* consulted and the last hit is kept.
MutNameScan(texts, i, current, seen, ing) ==
    LET hits == {j \in i..Len(texts) : texts[j] /= Miss}
        last == CHOOSE j \in hits : \A k \in hits : k <= j
    IN  [name |-> IF hits = {} THEN current ELSE Str(texts[last]),
         consulted |-> seen \o [j \in 1..(Len(texts) - i + 1) |-> i + j - 1]]

RECURSIVE NameScan(_, _, _, _, _)
\* The loop over name_selectors from selector i on, texts[i] being what
\* selector i finds, current the product_name so far and seen the selectors
\* consulted: product_name is assigned on every hit, and the loop breaks on
\* the first hit the validator accepts.
NameScan(texts, i, current, seen, ing) ==
    IF i > Len(texts) THEN [name |-> current, consulted |-> seen]
    ELSE IF texts[i] = Miss
    THEN NameScan(texts, i + 1, current, Append(seen, i), ing)
    ELSE IF is_valid_product(texts[i], ing)
    THEN [name |-> Str(texts[i]), consulted |-> Append(seen, i)]
    ELSE NameScan(texts, i + 1, Str(texts[i]), Append(seen, i), ing)

RECURSIVE PriceScan(_, _, _)
\* The loop over price_selectors: price is assigned on every hit, and the
\* loop breaks on the first non-empty one.
PriceScan(texts, i, current) ==
    IF i > Len(texts) THEN current
    ELSE IF texts[i] = Miss THEN PriceScan(texts, i + 1, current)
    ELSE IF texts[i] /= <<>> THEN Str(texts[i])
    ELSE PriceScan(texts, i + 1, Str(texts[i]))

\* search_walmart_product, lines 225-254: the browser is acquired before the
\* try; inside it the results page is loaded and a result container awaited.
SearchBegin ==
    /\ prog = "assistant" /\ pc = "s_begin"
    /\ \E o \in BrowserOutcomes, nav \in {"ok", "get_raises", "no_container"},
          pg \in PagesFor(mode) :
         \E e \in {ensure_browser(driver, o)} :
             /\ driver' = e.driver
             /\ sessions_created' = sessions_created + e.created
             /\ IF e.exc /= "none"
                THEN /\ raised' = e.exc
                     /\ pc' = (IF mode = "run" THEN "a_except" ELSE "m_idle")
                     /\ UNCHANGED <<match_out, page, product_name, product_url,
                                    price, consulted>>
                ELSE IF nav /= "ok" \/ e.driver = "quit"
                THEN /\ match_out' = FailedMatch(ingredient)
                     /\ page' = NoPage
                     /\ pc' = "s_return"
                     /\ UNCHANGED <<raised, product_name, product_url, price, consulted>>
                ELSE /\ page' = pg
                     /\ product_name' = None
                     /\ product_url' = None
                     /\ price' = None
                     /\ consulted' = <<>>
                     /\ pc' = "s_name"
                     /\ UNCHANGED <<raised, match_out>>
    /\ UNCHANGED <<input_vars, url, servings, fetch, parsed, scaled, result, calls,
                   call_failed, sessions_quit, exit_code, ingredient, fn_vars>>

\* Lines 256-267: the name selectors.
SearchName ==
    /\ prog = "assistant" /\ pc = "s_name"
    /\ \E r \in {NameScan(page.names, 1, None, <<>>, ingredient)} :
           /\ product_name' = r.name
           /\ consulted' = r.consulted
    /\ pc' = "s_url"
    /\ UNCHANGED <<input_vars, url, servings, fetch, parsed, scaled, result, raised,
                   calls, call_failed, browser_vars, exit_code, ingredient, page,
                   product_url, price, match_out, fn_vars>>

\* Lines 269-281: the product link, by the selector or else by a scan of the
\* anchors of the container.
SearchUrl ==
    /\ prog = "assistant" /\ pc = "s_url"
    /\ product_url' = (IF page.link = "none" THEN None ELSE Str(ProductHref))
    /\ pc' = "s_price"
    /\ UNCHANGED <<input_vars, url, servings, fetch, parsed, scaled, result, raised,
                   calls, call_failed, browser_vars, exit_code, ingredient, page,
                   product_name, price, consulted, match_out, fn_vars>>

\* Lines 283-309: the price selectors, and the return value.
SearchPrice ==
    /\ prog = "assistant" /\ pc = "s_price"
    /\ \E p \in {PriceScan(page.prices, 1, None)} :
           /\ price' = p
           /\ match_out' = ProductMatch(ingredient, product_name, product_url, p)
    /\ pc' = "s_return"
    /\ UNCHANGED <<input_vars, url, servings, fetch, parsed, scaled, result, raised,
                   calls, call_failed, browser_vars, exit_code, ingredient, page,
                   product_name, product_url, consulted, fn_vars>>

SearchNext == SearchBegin \/ SearchName \/ SearchUrl \/ SearchPrice

\* --------------------------------------------------- main.py: the assistant
\* The control locations inside the try block of __main__ at which a
\* KeyboardInterrupt reaches it (the bare except clauses around the selector
\* lookups swallow one raised there).
InterruptPoints ==
    {"a_extract", "a_parse", "a_scale", "a_browser", "a_match", "s_begin",
     "s_return", "a_returned"}

\* The return value of parse_recipe_with_claude's except clause.
FallbackRecipe ==
    Obj([k \in {Key("ingredients"), Key("servings")} |->
            IF k = Key("ingredients") THEN Arr(<<>>) ELSE Num(0)])

\* parse_recipe_with_claude on the outcome of _call_claude: its value, or
\* the fallback recipe in place of an exception (which exc still names).
ParsedOrFallback(out) ==
    IF out.exc = "none" THEN out ELSE [exc |-> out.exc, val |-> FallbackRecipe]

\* scaled_data.get('scaled_ingredients', []), as a sequence.
ScaledIngredients(s) == Get(s, "scaled_ingredients", Arr(<<>>)).v

\* scaled.get('shopping_list', []), as a sequence.
ShoppingList(s) == Get(s, "shopping_list", Arr(<<>>)).v

\* The list the matching phase of process_recipe_url walks, were it the
\* shopping list.
MutMatchList(s) == ShoppingList(s)

\* The list the matching phase of process_recipe_url walks.
MatchList(s) == ScaledIngredients(s)

\* RecipeAssistant(num_meals): the client is constructed; the browser is not.
\* In a run the try block of __main__ is entered next.
AssistantConstruct ==
    /\ prog = "assistant" /\ pc = "start"
    /\ \/ /\ pc' = (IF mode = "run" THEN "a_extract" ELSE "m_idle")
          /\ UNCHANGED exit_code
       \/ /\ pc' = "exited"
          /\ exit_code' = 1
    /\ UNCHANGED <<input_vars, url, servings, fetch, parsed, scaled, result, raised,
                   calls, call_failed, browser_vars, matcher_vars, fn_vars>>

\* process_recipe_url, lines 148-149: extract_recipe_text, which returns the
\* text of whatever page came back and raises on a network error only.
AssistantExtract ==
    /\ prog = "assistant" /\ mode = "run" /\ pc = "a_extract"
    /\ url' = RecipeUrl
    /\ calls' = Append(calls, "extract")
    /\ \E o \in FetchOutcomes :
         /\ fetch' = o
         /\ IF o \in {"ok", "http_error"}
            THEN pc' = "a_parse" /\ UNCHANGED raised
            ELSE /\ raised' = (IF o = "network_error" THEN "ConnectionError" ELSE "Exception")
                 /\ pc' = "a_except"
    /\ UNCHANGED <<input_vars, servings, parsed, scaled, result, call_failed,
                   browser_vars, matcher_vars, fn_vars, exit_code>>

\* Lines 151-153: parse_recipe_with_claude, whose except clause returns the
\* fallback recipe, and the count of its ingredients (get raises on a value
\* that is no dict).
AssistantParse ==
    /\ prog = "assistant" /\ mode = "run" /\ pc = "a_parse"
    /\ calls' = Append(calls, "parse")
    /\ \E r \in ParseReplies :
         \E value \in {ParsedOrFallback(call_claude("assistant", r))} :
             /\ parsed' = value.val
             /\ call_failed' = (IF value.exc = "none" THEN call_failed
                                ELSE call_failed \cup {"parse"})
             /\ IF value.val.t = "obj"
                THEN pc' = "a_scale" /\ UNCHANGED raised
                ELSE raised' = "AttributeError" /\ pc' = "a_except"
    /\ UNCHANGED <<input_vars, url, servings, fetch, scaled, result,
                   browser_vars, matcher_vars, fn_vars, exit_code>>

\* The result object of process_recipe_url, lines 172-177.
AssistantResult(u, text, s) ==
    [recipe_url |-> u,
     original_recipe |-> text,
     scaled_recipe |-> s,
     walmart_products |-> <<>>]

\* Lines 155-177: scale_recipe, which returns what _call_claude returns and
\* lets its exceptions pass, the printed summary (get raises on a value that
\* is no dict), and the result object.
AssistantScale ==
    /\ prog = "assistant" /\ mode = "run" /\ pc = "a_scale"
    /\ calls' = Append(calls, "scale")
    /\ \E r \in ScaleReplies(servings) :
         \E out \in {call_claude("assistant", r)} :
             IF out.exc /= "none"
             THEN /\ raised' = out.exc
                  /\ call_failed' = call_failed \cup {"scale"}
                  /\ pc' = "a_except"
                  /\ UNCHANGED <<scaled, result>>
             ELSE /\ scaled' = out.val
                  /\ UNCHANGED call_failed
                  /\ IF out.val.t /= "obj"
                     THEN /\ raised' = "AttributeError"
                          /\ pc' = "a_except"
                          /\ UNCHANGED result
                     ELSE /\ result' = AssistantResult(url, fetch, out.val)
                          /\ pc' = (IF search_walmart THEN "a_browser" ELSE "a_returned")
                          /\ UNCHANGED raised
    /\ UNCHANGED <<input_vars, url, servings, fetch, parsed,
                   browser_vars, matcher_vars, fn_vars, exit_code>>

\* Line 181: self._ensure_browser() before the matching loop.
AssistantBrowser ==
    /\ prog = "assistant" /\ mode = "run" /\ pc = "a_browser"
    /\ \E o \in BrowserOutcomes :
         \E e \in {ensure_browser(driver, o)} :
             /\ driver' = e.driver
             /\ sessions_created' = sessions_created + e.created
             /\ IF e.exc = "none"
                THEN pc' = "a_match" /\ UNCHANGED raised
                ELSE raised' = e.exc /\ pc' = "a_except"
    /\ UNCHANGED <<input_vars, url, servings, fetch, parsed, scaled, result, calls,
                   call_failed, sessions_quit, matcher_vars, fn_vars, exit_code>>

\* Lines 183-185: the next item of the loop, handed to the matcher; after
\* the last, line 189 returns the result.
AssistantMatch ==
    /\ prog = "assistant" /\ mode = "run" /\ pc = "a_match"
    /\ LET items == MatchList(scaled)
           i == Len(result.walmart_products) + 1
       IN  IF i > Len(items)
           THEN /\ pc' = "a_returned"
                /\ UNCHANGED <<calls, ingredient, match_out>>
           ELSE /\ ingredient' = items[i]
                /\ match_out' = NoMatch
                /\ calls' = Append(calls, "match")
                /\ pc' = "s_begin"
    /\ UNCHANGED <<input_vars, url, servings, fetch, parsed, scaled, result, raised,
                   call_failed, browser_vars, page, product_name, product_url, price,
                   consulted, fn_vars, exit_code>>

\* Lines 186-187: the matcher's return value is appended.
AssistantAppend ==
    /\ prog = "assistant" /\ mode = "run" /\ pc = "s_return"
    /\ result' = [result EXCEPT !.walmart_products = Append(@, match_out)]
    /\ pc' = "a_match"
    /\ UNCHANGED <<input_vars, url, servings, fetch, parsed, scaled, raised, calls,
                   call_failed, browser_vars, matcher_vars, fn_vars, exit_code>>

\* __main__, lines 359-366: the results are saved (which may raise) and the
\* summary printed.
AssistantSave ==
    /\ prog = "assistant" /\ mode = "run" /\ pc = "a_returned"
    /\ \/ pc' = "a_finally"
       \/ pc' = "a_except"
    /\ UNCHANGED <<input_vars, url, servings, fetch, parsed, scaled, result, raised,
                   calls, call_failed, browser_vars, matcher_vars, fn_vars, exit_code>>

\* A KeyboardInterrupt inside the try block of __main__.
AssistantInterrupt ==
    /\ prog = "assistant" /\ mode = "run" /\ pc \in InterruptPoints
    /\ raised' = "KeyboardInterrupt"
    /\ pc' = "a_except"
    /\ UNCHANGED <<input_vars, url, servings, fetch, parsed, scaled, result,
                   calls, call_failed, browser_vars, matcher_vars, fn_vars, exit_code>>

\* __main__, lines 368-371: both except clauses print and fall to finally.
AssistantExcept ==
    /\ prog = "assistant" /\ mode = "run" /\ pc = "a_except"
    /\ pc' = "a_finally"
    /\ UNCHANGED <<input_vars, url, servings, fetch, parsed, scaled, result, raised,
                   calls, call_failed, browser_vars, matcher_vars, fn_vars, exit_code>>

\* __main__, lines 372-373: finally: assistant.cleanup(); the process ends.
AssistantCleanup ==
    /\ prog = "assistant" /\ mode = "run" /\ pc = "a_finally"
    /\ driver' = cleanup_driver(driver)
    /\ sessions_quit' = sessions_quit + (IF driver' = "quit" /\ driver = "open" THEN 1 ELSE 0)
    /\ exit_code' = 0
    /\ pc' = "exited"
    /\ UNCHANGED <<input_vars, url, servings, fetch, parsed, scaled, result, raised,
                   calls, call_failed, sessions_created, matcher_vars, fn_vars>>

CliNext == CliMain \/ CliBegin \/ CliExtract \/ CliParse \/ CliScale \/ CliPrint \/ CliCrash

AssistantNext ==
    \/ AssistantConstruct \/ AssistantExtract \/ AssistantParse \/ AssistantScale
    \/ AssistantBrowser \/ AssistantMatch \/ AssistantAppend \/ AssistantSave
    \/ AssistantInterrupt \/ AssistantExcept \/ AssistantCleanup

\* A run of either program.
Next == CliNext \/ AssistantNext \/ SearchNext

Spec == Init /\ [][Next]_vars

\* -------------------------------------------- direct calls of the matcher
\* A client calls search_walmart_product(ingredient) on the assistant.
MatchCall ==
    /\ prog = "assistant" /\ mode = "direct" /\ pc = "m_idle"
    /\ \E ing \in Ingredients : ingredient' = ing
    /\ raised' = "none"
    /\ match_out' = NoMatch
    /\ pc' = "s_begin"
    /\ UNCHANGED <<input_vars, url, servings, fetch, parsed, scaled, result, calls,
                   call_failed, browser_vars, page, product_name, product_url, price,
                   consulted, fn_vars, exit_code>>

\* The matcher returns to the client: its locals go out of scope and the
\* client consumes the returned value.
MatchReturn ==
    /\ prog = "assistant" /\ mode = "direct" /\ pc = "s_return"
    /\ pc' = "m_idle"
    /\ ingredient' = None
    /\ page' = NoPage
    /\ product_name' = None
    /\ product_url' = None
    /\ price' = None
    /\ consulted' = <<>>
    /\ match_out' = NoMatch
    /\ UNCHANGED <<input_vars, url, servings, fetch, parsed, scaled, result, raised,
                   calls, call_failed, browser_vars, fn_vars, exit_code>>

\* The client calls cleanup().
MatchCleanup ==
    /\ prog = "assistant" /\ mode = "direct" /\ pc = "m_idle"
    /\ driver = "open"
    /\ driver' = cleanup_driver(driver)
    /\ sessions_quit' = sessions_quit + (IF driver' = "quit" THEN 1 ELSE 0)
    /\ UNCHANGED <<input_vars, pc, url, servings, fetch, parsed, scaled, result, raised,
                   calls, call_failed, sessions_created, matcher_vars, fn_vars,
                   exit_code>>

InitMatch ==
    /\ Blank
    /\ mode = "direct"
    /\ prog = "assistant"
    /\ argv = <<"main.py">>
    /\ env_key = TRUE
    /\ servings = DefaultServings
    /\ search_walmart = FALSE
    /\ fn_in = None

NextMatch ==
    AssistantConstruct \/ MatchCall \/ SearchNext \/ MatchReturn \/ MatchCleanup

\* An assistant whose matcher a client calls directly, any number of times.
SpecMatch == InitMatch /\ [][NextMatch]_vars

\* ------------------------------------------------------- the pure functions
\* The payloads the cleaners are applied to.
CleanerPayloads == ParsePayloads \cup ScalePayloads(1) \cup {NoteText, NotJson}

CleanerInputs ==
    {[fn |-> "clean", variant |-> v, payload |-> p, text |-> Wrap(v, p),
      ingredient |-> None] : v \in AllVariants, p \in CleanerPayloads}

ValidatorInputs ==
    {[fn |-> "valid", variant |-> "bare", payload |-> <<>>, text |-> c,
      ingredient |-> ing] : c \in Candidates, ing \in Ingredients}

InitFn ==
    /\ Blank
    /\ mode = "pure"
    /\ argv = <<>>
    /\ env_key = TRUE
    /\ servings = DefaultServings
    /\ search_walmart = FALSE
    /\ \/ prog \in {"cli", "assistant"} /\ fn_in \in CleanerInputs
       \/ prog = "assistant" /\ fn_in \in ValidatorInputs

\* call_claude / _call_claude on the reply text fn_in.text.
ApplyCleaner ==
    /\ mode = "pure" /\ pc = "start" /\ fn_in.fn = "clean"
    /\ fn_out' = call_claude(prog, Reply(fn_in.text))
    /\ pc' = "applied"
    /\ UNCHANGED <<input_vars, url, servings, fetch, parsed, scaled, result, raised,
                   calls, call_failed, browser_vars, matcher_vars, fn_in, exit_code>>

\* is_valid_product(product_name, ingredient) on the candidate fn_in.text.
ApplyValidator ==
    /\ mode = "pure" /\ pc = "start" /\ fn_in.fn = "valid"
    /\ fn_out' = [exc |-> "none", val |-> is_valid_product(fn_in.text, fn_in.ingredient)]
    /\ pc' = "applied"
    /\ UNCHANGED <<input_vars, url, servings, fetch, parsed, scaled, result, raised,
                   calls, call_failed, browser_vars, matcher_vars, fn_in, exit_code>>

NextFn == ApplyCleaner \/ ApplyValidator

\* The cleaners and the validator, applied to the inputs of InitFn.
SpecFn == InitFn /\ [][NextFn]_vars

\* ------------------------------------------------------------------ the claims
\* The orchestrator has returned to its caller.
Returned == pc \in {"c_returned", "a_returned"}

\* The fetch of this run failed.
FetchFailed == fetch \in FetchOutcomes \ {"ok"}

\* The matcher invocations of this run so far.
MatchCalls == Cardinality({i \in 1..Len(calls) : calls[i] = "match"})

\* C1, as the claim states it: the orchestrator never raises past its own
\* boundary. No exception but the user's interrupt leaves process_recipe or
\* process_recipe_url, whatever the fetch, the two model calls and the client
\* construction do, and the result it returns carries a success indication.
C1_NeverRaises ==
    mode = "run" =>
        /\ raised \in {"none", "KeyboardInterrupt"}
        /\ Returned => "success" \in DOMAIN result

\* C2, as the claim states it: a failed stage short-circuits the run. After
\* a failed fetch neither the parser nor the scaler is called, after a failed
\* parse the scaler is not called, and the result returned after a failed
\* stage has success = false and an error message.
C2_ShortCircuit ==
    mode = "run" =>
        /\ FetchFailed => Range(calls) \cap {"parse", "scale"} = {}
        /\ "parse" \in call_failed => "scale" \notin Range(calls)
        /\ (Returned /\ (FetchFailed \/ call_failed /= {})) =>
               /\ {"success", "error"} \subseteq DOMAIN result
               /\ result.success = FALSE

\* C3, as the claim states it: for every target N > 0 the scaled result's
\* scaled_servings equals N, whatever the model wrote or left out. The scaled
\* result is the result of process_recipe in recipe_cli.py and the return
\* value of scale_recipe in main.py.
C3_TargetWins ==
    (mode = "run" /\ servings > 0) =>
        /\ (prog = "cli" /\ pc = "c_returned" /\ result.success) =>
               result.scaled_servings = Num(servings)
        /\ (prog = "assistant" /\ scaled.t = "obj") =>
               Get(scaled, "scaled_servings", None) = Num(servings)

\* C4, as the claim states it: search_walmart_product never raises, and what
\* it returns has all four product fields, each an extracted string or its
\* sentinel, also when the browser cannot be acquired.
C4_MatcherNeverRaises ==
    mode = "direct" =>
        /\ raised = "none"
        /\ pc = "s_return" =>
               /\ match_out /= NoMatch
               /\ DOMAIN match_out.product = {"name", "url", "price", "quantity_needed"}
               /\ match_out.product.name
                      \in (PageTitles \ {<<>>}) \cup {NameNotFound, SearchFailed}
               /\ match_out.product.url \in {ProductHref, UrlNotFound}
               /\ match_out.product.price \in {PriceText, PriceNotFound}

DenylistPasses(candidate, ing) ==
    \A kw \in invalid_keywords(Lower(Field(ing, "category"))) :
        ~Contains(Lower(candidate), kw)

\* Check (ii): the ingredient name is empty or its case-folded form is a
\* substring of the case-folded candidate name.
NamePasses(candidate, ing) ==
    \/ Field(ing, "name") = <<>>
    \/ Contains(Lower(candidate), Lower(Field(ing, "name")))

\* C6: is_valid_product returns true if and only if both checks pass; for
\* category produce and a candidate containing "seeds" it returns false
\* whatever the substring check gives, and for ingredient name garlic and
\* the candidate "Fresh Garlic Cloves 3ct" it returns true.
C6_ValidatorIff ==
    (mode = "pure" /\ pc = "applied" /\ fn_in.fn = "valid") =>
        /\ fn_out.val = (DenylistPasses(fn_in.text, fn_in.ingredient)
                         /\ NamePasses(fn_in.text, fn_in.ingredient))
        /\ (/\ Lower(Field(fn_in.ingredient, "category")) = <<"p", "r", "o", "d", "u", "c", "e">>
            /\ Contains(Lower(fn_in.text), <<"s", "e", "e", "d", "s">>)) =>
               fn_out.val = FALSE
        /\ (/\ Field(fn_in.ingredient, "name") = <<"g", "a", "r", "l", "i", "c">>
            /\ fn_in.text = GarlicCloves) =>
               fn_out.val = TRUE

\* The validator has accepted "Fresh Garlic Cloves 3ct" for garlic.
C6_Witness ==
    /\ mode = "pure" /\ pc = "applied" /\ fn_in.fn = "valid"
    /\ Field(fn_in.ingredient, "name") = <<"g", "a", "r", "l", "i", "c">>
    /\ fn_in.text = GarlicCloves
    /\ fn_out.val = TRUE

\* C7: the browser session is a lazily acquired singleton with guaranteed
\* release. A run creates at most one session, none before the matching
\* phase needs it, and when the process has ended every session created has
\* been quit, after a normal completion, an error and an interrupt alike.
C7_BrowserSingleton ==
    mode = "run" =>
        /\ sessions_created <= 1
        /\ sessions_quit <= sessions_created
        /\ sessions_created = 1 =>
               prog = "assistant" /\ search_walmart /\ result /= NoResult
        /\ pc \in {"start", "a_extract", "a_parse", "a_scale", "a_browser"} =>
               driver = "None" /\ sessions_created = 0
        /\ pc = "exited" => sessions_quit = sessions_created /\ driver /= "open"

\* A run that created a session and was interrupted has ended, the session
\* quit.
C7_Witness ==
    /\ mode = "run" /\ pc = "exited"
    /\ raised = "KeyboardInterrupt"
    /\ sessions_created = 1 /\ sessions_quit = 1

\* C8, as the claim states it: for every well-formed payload P, each cleaner
\* applied to P bare, after an opening fence, between two fences, and after
\* a fence with a language tag yields the value P is JSON for.
C8_CleanerRoundTrip ==
    (/\ mode = "pure" /\ pc = "applied" /\ fn_in.fn = "clean"
     /\ fn_in.variant \in Variants
     /\ json_loads(fn_in.payload).ok) =>
        fn_out = CallOk(json_loads(fn_in.payload).val)

\* C9, as the claim states it: the serving count the parsed recipe carries
\* (original_servings in recipe_cli.py, servings in main.py) and the
\* original_servings of the pipeline result are never zero or negative:
\* 4 when the model leaves it out, a positive integer otherwise.
C9_OriginalServingsPositive ==
    mode = "run" =>
        /\ (prog = "cli" /\ parsed.t = "obj") =>
               /\ Get(parsed, "original_servings", Num(4)).t = "num"
               /\ Get(parsed, "original_servings", Num(4)).v > 0
        /\ (prog = "assistant" /\ parsed.t = "obj" /\ HasKey(parsed, "servings")) =>
               /\ Get(parsed, "servings", Num(4)).t = "num"
               /\ Get(parsed, "servings", Num(4)).v > 0
        /\ (prog = "cli" /\ pc = "c_returned" /\ result.success) =>
               /\ result.original_servings.t = "num"
               /\ result.original_servings.v > 0
               /\ ~HasKey(parsed, "original_servings") => result.original_servings = Num(4)

\* Help is asked for by either flag.
HelpRequested == Len(argv) >= 2 /\ argv[2] \in {"-h", "--help"}

\* No URL is given, or the target given is no positive integer.
ArgumentsInvalid ==
    \/ Len(argv) < 2
    \/ Len(argv) > 2 /\ ~(IsDigit(argv[3]) /\ NumeralValue(argv[3]) > 0)

\* C10, as the claim states it: the cli process ends with status 0 when help
\* is asked for or the run succeeds, and with status 1 when arguments are
\* missing or invalid.
C10_ExitContract ==
    (prog = "cli" /\ mode = "run" /\ pc = "exited") =>
        /\ HelpRequested => exit_code = 0
        /\ (~HelpRequested /\ ArgumentsInvalid) => exit_code = 1
        /\ (result /= NoResult /\ result.success) => exit_code = 0

\* The name selectors that find an element on the page of this search.
NameHits == {i \in 1..NameSelectors : page.names[i] /= Miss}

\* Those of them whose text the validator accepts for the ingredient.
ValidatedHits == {i \in NameHits : is_valid_product(page.names[i], ingredient)}

\* The selectors 1..n in their priority order.
FirstSelectors(n) == [i \in 1..n |-> i]

\* C11: name extraction consults the name selectors in their priority order
\* and stops at the first whose text exists and passes the validator, so no
\* selector after it is consulted; if no text validates, every selector is
\* consulted and the name kept is the text of the last selector that hit, or
\* none if no selector hit.
C11_FirstValidatedName ==
    (mode = "direct" /\ pc = "s_url") =>
        IF ValidatedHits /= {}
        THEN \E f \in ValidatedHits :
                 /\ \A g \in ValidatedHits : f <= g
                 /\ consulted = FirstSelectors(f)
                 /\ product_name = Str(page.names[f])
        ELSE /\ consulted = FirstSelectors(NameSelectors)
             /\ IF NameHits = {} THEN product_name = None
                ELSE \E l \in NameHits :
                         /\ \A h \in NameHits : h <= l
                         /\ product_name = Str(page.names[l])

\* The first selector's text was rejected, the second's accepted, and the
\* third, which would have hit too, was not consulted.
C11_Witness ==
    /\ mode = "direct" /\ pc = "s_url"
    /\ page.names[1] /= Miss /\ ~is_valid_product(page.names[1], ingredient)
    /\ page.names[2] /= Miss /\ is_valid_product(page.names[2], ingredient)
    /\ page.names[3] /= Miss /\ page.names[3] /= page.names[2]
    /\ consulted = <<1, 2>>
    /\ product_name = Str(page.names[2])

\* C12, as the claim states it: when the validator rejects every name found
\* for an ingredient, the ProductMatch returned has the sentinel "Name not
\* found" as product.name, never a name that failed validation.
C12_RejectedNameNotReturned ==
    (/\ mode = "direct" /\ pc = "s_return" /\ page /= NoPage
     /\ NameHits /= {} /\ ValidatedHits = {}) =>
        match_out.product.name = NameNotFound

\* The place of a stage in the order extract, parse, scale, match.
StageRank(k) ==
    CASE k = "extract" -> 1 [] k = "parse" -> 2 [] k = "scale" -> 3 [] k = "match" -> 4

\* How often stage k was invoked in this run so far.
Invocations(k) == Cardinality({i \in 1..Len(calls) : calls[i] = k})

\* C13: within one run the stages are invoked in the order extract, parse,
\* scale, match, each of extract, parse and scale at most once and none
\* before the one it follows; the scale call is issued only once the parse
\* call has returned its object; a failed model call is not issued again, so
\* a run issues at most two model calls.
C13_LinearStages ==
    mode = "run" =>
        /\ \A i, j \in 1..Len(calls) :
               i < j => /\ StageRank(calls[i]) <= StageRank(calls[j])
                        /\ calls[i] = calls[j] => calls[i] = "match"
        /\ \A i \in 1..Len(calls) :
               StageRank(calls[i]) > 1 =>
                   \E h \in 1..(i - 1) : StageRank(calls[h]) >= StageRank(calls[i]) - 1
        /\ "scale" \in Range(calls) => parsed.t = "obj"
        /\ Invocations("parse") + Invocations("scale") <= 2
        /\ \A k \in call_failed : Invocations(k) = 1

\* A run went through all four stages, the matcher twice, after a parse
\* call that failed and was not issued again.
C13_Witness ==
    /\ mode = "run" /\ pc = "a_returned"
    /\ calls = <<"extract", "parse", "scale", "match", "match">>
    /\ call_failed = {"parse"}

====
